---- MODULE Spec2Model ----
(***************************************************************************)
(* Model of the booking core of the HEALTH clinic site: the chat           *)
(* secretary (core/lite_secretary.py), the validation engine               *)
(* (core/validators.py, core/datetime_validator.py) and the rows of the    *)
(* Patient and Appointment tables they read and write (core/models.py).    *)
(*                                                                         *)
(* Dates are day offsets from "today"; today is Sunday 2025-09-28, so that *)
(* day 1 is a working Monday, day 2 is the fixed holiday 30.09, day 5 is   *)
(* a Friday and day 6 a Saturday.  Times of day are minutes after          *)
(* midnight; an instant is day * 1440 + minute.                            *)
(***************************************************************************)
EXTENDS Integers, Sequences, FiniteSets, TLC

VARIABLES
    patients,      \* Patient table: sequence of rows, id = index
    appointments,  \* Appointment table: sequence of rows, id = index
    cache,         \* django cache: slot lists keyed by (specialist, date, duration)
    now,           \* current time of day (minutes), fixed during a run
    lastCall,      \* the last create_appointment / cancel_appointment call and its result
    lastQuery,     \* the last get_available_slots call and its result
    tx,            \* concurrent create_appointment calls: position and local state
    sessions,      \* _global_sessions: session id -> session
    lastTurn,      \* the last process_message call and its result
    nMsgs,         \* number of process_message calls so far
    lastCheck,     \* the last validate_appointment_data call and its result
    lastPhone      \* the last PhoneValidator.validate_phone calls on one number

vars == <<patients, appointments, cache, now, lastCall, lastQuery, tx, sessions, lastTurn, nMsgs, lastCheck, lastPhone>>

(***************************************************************************)
(* Bounds of the model.                                                    *)
(***************************************************************************)
MaxAppointments == 2
MaxSlotBookings == 2
MaxMessages == 7

(***************************************************************************)
(* Program constants.                                                      *)
(***************************************************************************)
WorkStart == 9
WorkEnd == 19
BreakStart == 13
BreakEnd == 14
BufferMinutes == 60
MaxDaysAhead == 365
SlotStep == 30
HistoryLimit == 10

Min(a, b) == IF a < b THEN a ELSE b
Max(a, b) == IF a > b THEN a ELSE b

(***************************************************************************)
(* The calendar.                                                           *)
(***************************************************************************)
\* date.weekday(): Monday = 0 ... Sunday = 6; day 0 is a Sunday
weekday(d) == (d + 6) % 7

\* (month, day) of a day offset: 28.09, 29.09, 30.09, 01.10, 02.10, ...; the
\* offsets used are a few days around today and the days around today + 365
\* (28.09.2026)
MonthDay(d) ==
    IF d < 0 THEN <<9, 28 + d>>
    ELSE IF d >= 365 THEN <<9, 28 + (d - 365)>>
    ELSE IF d <= 2 THEN <<9, 28 + d>> ELSE <<10, d - 2>>

FIXED_HOLIDAYS == {<<1, 1>>, <<5, 14>>, <<9, 30>>, <<10, 9>>}

is_holiday(d) == MonthDay(d) \in FIXED_HOLIDAYS

is_weekend(d) == weekday(d) \in {4, 5}

(***************************************************************************)
(* Inputs.  A day string is modelled by what the parsers make of it:       *)
(*   "empty"  the empty string                                             *)
(*   "iso"    'YYYY-MM-DD' of day d (what the chat extractor produces)     *)
(*   "today"  the word 'сегодня'                                           *)
(*   "bad"    text no format matches                                       *)
(* A time string likewise:                                                 *)
(*   "colon"  'H:MM'      "hour"  'H' (hours only)      "bad"              *)
(***************************************************************************)
DayStr(kind, d) == [kind |-> kind, d |-> d]
TimeStr(fmt, h, m) == [fmt |-> fmt, h |-> h, m |-> m]

NoDate == [ok |-> FALSE, d |-> 0]
NoTime == [ok |-> FALSE, t |-> 0]

\* DateTimeValidator.parse_date_string
parse_date_string(day) ==
    CASE day.kind = "empty" -> NoDate
      [] day.kind = "today" -> [ok |-> TRUE, d |-> 0]
      [] day.kind = "iso"   -> [ok |-> TRUE, d |-> day.d]
      [] OTHER              -> NoDate

\* DateTimeValidator.parse_time_string
parse_time_string(time) ==
    CASE time.fmt = "colon" -> [ok |-> TRUE, t |-> time.h * 60 + time.m]
      [] time.fmt = "hour"  -> [ok |-> TRUE, t |-> time.h * 60]
      [] OTHER              -> NoTime

\* datetime.strptime(time, '%H:%M') as used by the pre-check and the fallback
strptime_HM(time) ==
    IF time.fmt = "colon" THEN [ok |-> TRUE, t |-> time.h * 60 + time.m] ELSE NoTime

\* DateTimeValidator.validate_date: "ok" or the reason of the rejection
validate_date(d) ==
    CASE d < 0             -> "past"
      [] d > MaxDaysAhead  -> "too_far"
      [] is_weekend(d)     -> "weekend"
      [] is_holiday(d)     -> "holiday"
      [] OTHER             -> "ok"

\* a validate_time that closes the working hours after 19:00 instead of at 19:00
validate_time_through_closing(t, d) ==
    CASE (t \div 60) < WorkStart \/ (t \div 60) > WorkEnd       -> "hours"
      [] BreakStart <= (t \div 60) /\ (t \div 60) < BreakEnd   -> "lunch"
      [] d = 0 /\ t <= now + BufferMinutes                     -> "buffer"
      [] OTHER                                                 -> "ok"

\* DateTimeValidator.validate_time
validate_time(t, d) ==
    CASE (t \div 60) < WorkStart \/ (t \div 60) >= WorkEnd     -> "hours"
      [] BreakStart <= (t \div 60) /\ (t \div 60) < BreakEnd   -> "lunch"
      [] d = 0 /\ t <= now + BufferMinutes                     -> "buffer"
      [] OTHER                                                 -> "ok"

\* DateTimeValidator.validate_datetime, the date part: the errors by kind
date_errors(pd) ==
    IF ~pd.ok THEN {"date_format"}
    ELSE IF validate_date(pd.d) # "ok" THEN {validate_date(pd.d)} ELSE {}

\* DateTimeValidator.validate_datetime, the time part: the errors by kind
time_errors(pd, pt) ==
    IF ~pt.ok THEN {"time_format"}
    ELSE IF pd.ok /\ validate_time(pt.t, pd.d) # "ok" THEN {validate_time(pt.t, pd.d)} ELSE {}

\* DateTimeValidator.validate_datetime: the result for a parsed date and time
datetime_result(pd, pt, dateErr, timeErr) ==
    [is_valid |-> dateErr = {} /\ timeErr = {},
     errors |-> dateErr \cup timeErr,
     parsed_date |-> pd,
     parsed_time |-> pt,
     parsed_datetime |-> IF pd.ok /\ pt.ok THEN pd.d * 1440 + pt.t ELSE 0]

\* DateTimeValidator.validate_datetime, after the two strings are parsed
validate_parsed(pd, pt) == datetime_result(pd, pt, date_errors(pd), time_errors(pd, pt))

\* DateTimeValidator.validate_datetime
validate_datetime(day, time) == validate_parsed(parse_date_string(day), parse_time_string(time))

\* DateTimeValidator.get_available_time_slots: start minutes of the base slots of a day
get_available_time_slots(d, duration) ==
    IF validate_date(d) # "ok" THEN {}
    ELSE {t \in {WorkStart * 60 + k * SlotStep : k \in 0 .. ((WorkEnd - WorkStart) * 60) \div SlotStep - 1} :
            /\ ~(BreakStart <= (t \div 60) /\ (t \div 60) < BreakEnd)
            /\ t + duration <= WorkEnd * 60
            /\ ~(d = 0 /\ t <= now + BufferMinutes)}

\* DateTimeValidator.suggest_alternative_dates: the dates it proposes
suggest_alternative_dates(original) ==
    {c \in Max(1, original) .. Max(1, original) + 6 :
        validate_date(c) = "ok" /\ get_available_time_slots(c, 60) # {}}

(***************************************************************************)
(* Names, phones, services and specialists.                                *)
(*                                                                         *)
(* Names: "Ivan" stands for 'Иван', "Osteopat" for 'Остеопат' (what        *)
(* extract_name makes of the message 'остеопат'; a forbidden word of       *)
(* NameValidator).                                                         *)
(* Phones are given by spelling and subscriber number n:                   *)
(*   "intl" '+972' + 9 digits, "local" '0' + 9 digits, "bare" the 9        *)
(*   digits, "short" fewer than 9 digits.  A stored phone is [cc, n].      *)
(* Services: "osteo" is 'Консультация остеопата' (20 minutes), "nutri" is  *)
(* 'Консультация нутрициолога' (60 minutes); "child_massage" is 'Детский   *)
(* массаж', a name the chat extractor produces and no Service row has.     *)
(* Specialists: "Ekaterina", "Rimma"; the name "a" is contained in both.   *)
(***************************************************************************)
FORBIDDEN_WORDS == {"Osteopat"}

\* NameValidator.validate_name
validate_name(name) == name # "" /\ name \notin FORBIDDEN_WORDS

\* NameValidator.suggest_corrections: is the list non-empty
name_suggestions(name) == name = ""

Phone(form, n) == [form |-> form, n |-> n]

\* PhoneValidator.validate_phone: (is_valid, formatted)
validate_phone(phone) ==
    IF phone.form \in {"intl", "local", "bare"}
    THEN [ok |-> TRUE, formatted |-> [cc |-> "+972", n |-> phone.n]]
    ELSE [ok |-> FALSE, formatted |-> [cc |-> "error", n |-> 0]]

\* PhoneValidator.suggest_corrections: is the list non-empty
phone_suggestions(phone) == phone.form = "short"

\* the phone clean-up of _create_simple_appointment
simple_phone(phone) ==
    CASE phone.form = "intl"  -> [cc |-> "+972", n |-> phone.n]
      [] phone.form = "local" -> [cc |-> "+972", n |-> phone.n]
      [] OTHER                -> [cc |-> "+", n |-> phone.n]

\* the Service rows: name -> duration in minutes
ServiceRows == [osteo |-> 20, nutri |-> 60]

\* the Specialist rows, in the order of Meta.ordering = ['name']
SpecialistRows == <<"Ekaterina", "Rimma">>

Specialists == {SpecialistRows[i] : i \in 1 .. Len(SpecialistRows)}

NoRow == [ok |-> FALSE, row |-> ""]

\* ServiceValidator.validate_service
validate_service(service_name) ==
    IF service_name \in DOMAIN ServiceRows THEN [ok |-> TRUE, row |-> service_name] ELSE NoRow

\* Specialist.objects.filter(name__icontains=...), as indexes into the ordered rows
specialists_containing(specialist_name) ==
    {i \in 1 .. Len(SpecialistRows) :
        specialist_name = SpecialistRows[i] \/ specialist_name = "a"}

\* ServiceValidator.validate_specialist: exact match, else the first partial match
validate_specialist(specialist_name) ==
    IF specialist_name \in Specialists THEN [ok |-> TRUE, row |-> specialist_name]
    ELSE IF specialists_containing(specialist_name) # {}
         THEN [ok |-> TRUE,
               row |-> SpecialistRows[CHOOSE i \in specialists_containing(specialist_name) :
                                  \A j \in specialists_containing(specialist_name) : i <= j]]
         ELSE NoRow

(***************************************************************************)
(* Queries on the Appointment and Patient tables.                          *)
(***************************************************************************)
Active(a) == a.status \in {"pending", "confirmed"}

Overlap(s1, e1, s2, e2) == s1 < e2 /\ e1 > s2

\* ConflictValidator.check_appointment_conflicts: the conflicting rows
check_appointment_conflicts(appts, specialist, start, end, exclude) ==
    {i \in 1 .. Len(appts) :
        /\ appts[i].specialist = specialist
        /\ Active(appts[i])
        /\ appts[i].start < end
        /\ appts[i].end > start
        /\ (exclude = 0 \/ i # exclude)}

\* ConflictValidator.check_patient_double_booking: the conflicting rows
check_patient_double_booking(pats, appts, phone, start, end, exclude) ==
    {i \in 1 .. Len(appts) :
        /\ pats[appts[i].patient].phone = phone
        /\ Active(appts[i])
        /\ appts[i].start < end
        /\ appts[i].end > start
        /\ (exclude = 0 \/ i # exclude)}

\* timezone.make_aware(datetime.combine(date, time)): settings.TIME_ZONE is the
\* zone DateTimeValidator localizes in, so both give the same instant
make_aware(d, t) == d * 1440 + t

\* date.strftime('%Y-%m-%d') and time.strftime('%H:%M') of check_availability
strftime_date(d) == DayStr("iso", d)
strftime_time(t) == TimeStr("colon", t \div 60, t % 60)

\* AvailabilityValidator.check_availability, after its own validate_datetime call
availability_of(appts, specialist, r, duration) ==
    IF ~r.is_valid THEN "datetime"
    ELSE IF check_appointment_conflicts(appts, specialist, r.parsed_datetime,
                                        r.parsed_datetime + duration, 0) # {}
         THEN "conflict"
         ELSE "ok"

\* AvailabilityValidator.check_availability: "ok", "datetime" or "conflict"
check_availability(appts, specialist, d, t, duration) ==
    availability_of(appts, specialist, validate_datetime(strftime_date(d), strftime_time(t)),
                    duration)

\* the slots get_available_slots computes when the cache does not answer
compute_slots(appts, specialist, d, duration) ==
    {t \in get_available_time_slots(d, duration) :
        check_appointment_conflicts(appts, specialist, d * 1440 + t,
                                    d * 1440 + t + duration, 0) = {}}

CacheKey(specialist, d, duration) == <<specialist, d, duration>>

cache_hit(c, specialist, d, duration) ==
    /\ CacheKey(specialist, d, duration) \in DOMAIN c
    /\ c[CacheKey(specialist, d, duration)] # {}

\* AvailabilityValidator.get_available_slots: the slots returned
get_available_slots(c, appts, specialist, d, duration) ==
    IF cache_hit(c, specialist, d, duration)
    THEN c[CacheKey(specialist, d, duration)]
    ELSE compute_slots(appts, specialist, d, duration)

\* AvailabilityValidator.get_available_slots: the cache it leaves behind
cache_after_slots(c, appts, specialist, d, duration) ==
    IF cache_hit(c, specialist, d, duration)
    THEN c
    ELSE [k \in DOMAIN c \cup {CacheKey(specialist, d, duration)} |->
            IF k = CacheKey(specialist, d, duration)
            THEN compute_slots(appts, specialist, d, duration)
            ELSE c[k]]

\* ConflictValidator.find_alternative_slots: is the list non-empty
find_alternative_slots(appts, specialist, d, duration) ==
    \E off \in 0 .. 6 : compute_slots(appts, specialist, d + off, duration) # {}

(***************************************************************************)
(* ValidationManager.                                                      *)
(***************************************************************************)
\* ValidationManager.validate_appointment_data.  The result keeps is_valid,
\* the errors by kind, whether 'suggestions' is non-empty, what 'alternatives'
\* holds ("none", "dates" from suggest_alternative_dates, "slots" from
\* find_alternative_slots), the validated data, and the cache left behind by
\* the get_available_slots call of step 6.
validation_result(appts, c, name, phone, nv, pv, sv, spv, dr, step5, duration, avail, double, slots, is_valid) ==
    [is_valid |-> is_valid,
     errors |-> (IF nv THEN {} ELSE {"name"})
                \cup (IF pv.ok THEN {} ELSE {"phone"})
                \cup (IF sv.ok THEN {} ELSE {"service"})
                \cup (IF spv.ok THEN {} ELSE {"specialist"})
                \cup (IF step5 /\ ~dr.is_valid THEN dr.errors ELSE {})
                \cup (IF step5 /\ dr.is_valid /\ avail # "ok" THEN {avail} ELSE {})
                \cup (IF step5 /\ dr.is_valid /\ avail = "ok" /\ double
                      THEN {"double_booking"} ELSE {}),
     has_suggestions |->
        IF step5 /\ dr.is_valid /\ avail # "ok" /\ slots # {} THEN TRUE
        ELSE (~nv /\ name_suggestions(name)) \/ (~pv.ok /\ phone_suggestions(phone)),
     alternatives |->
        IF step5 /\ ~dr.is_valid /\ dr.parsed_date.ok
        THEN (IF suggest_alternative_dates(dr.parsed_date.d) # {} THEN "dates" ELSE "none")
        ELSE IF step5 /\ dr.is_valid /\ avail # "ok"
             THEN (IF find_alternative_slots(appts, spv.row, dr.parsed_date.d, duration)
                   THEN "slots" ELSE "none")
             ELSE "none",
     has_name |-> nv,
     has_phone |-> pv.ok,
     phone |-> pv.formatted,
     service |-> sv,
     specialist |-> spv,
     has_date |-> step5 /\ dr.is_valid /\ avail = "ok" /\ is_valid,
     date |-> dr.parsed_date.d,
     time |-> dr.parsed_time.t,
     duration |-> duration,
     cache |-> IF step5 /\ dr.is_valid /\ avail # "ok"
               THEN cache_after_slots(c, appts, spv.row, dr.parsed_date.d, duration)
               ELSE c]

\* validate_appointment_data, steps 6 and 7: availability, double booking, slots
validate_checked(appts, c, name, phone, nv, pv, sv, spv, dr, step5, duration, avail, double) ==
    validation_result(appts, c, name, phone, nv, pv, sv, spv, dr, step5, duration, avail, double,
                      get_available_slots(c, appts, spv.row, dr.parsed_date.d, duration),
                      /\ nv /\ pv.ok /\ sv.ok /\ spv.ok
                      /\ (step5 => dr.is_valid)
                      /\ (step5 /\ dr.is_valid => avail = "ok" /\ ~double))

\* validate_appointment_data, step 5: the date and the time, when all four of
\* specialist, service, date and time are there
validate_when(pats, appts, c, name, phone, nv, pv, sv, spv, dr, step5, duration, exclude) ==
    validate_checked(appts, c, name, phone, nv, pv, sv, spv, dr, step5, duration,
                     check_availability(appts, spv.row, dr.parsed_date.d, dr.parsed_time.t, duration),
                     check_patient_double_booking(pats, appts, pv.formatted, dr.parsed_datetime,
                                                  dr.parsed_datetime + duration, exclude) # {})

\* validate_appointment_data, steps 1 to 4 done: name, phone, service, specialist
validate_fields(pats, appts, c, name, phone, nv, pv, sv, spv, day, time, exclude) ==
    validate_when(pats, appts, c, name, phone, nv, pv, sv, spv, validate_datetime(day, time),
                  spv.ok /\ sv.ok /\ day.kind # "empty" /\ time.fmt # "empty",
                  IF sv.ok THEN ServiceRows[sv.row] ELSE 60, exclude)

\* ValidationManager.validate_appointment_data
validate_appointment_data(pats, appts, c, name, phone, service_name, specialist_name, day, time, exclude) ==
    validate_fields(pats, appts, c, name, phone, validate_name(name), validate_phone(phone),
                    validate_service(service_name), validate_specialist(specialist_name),
                    day, time, exclude)

\* ValidationManager.validate_appointment_edit
validate_appointment_edit(pats, appts, c, appointment_id, name, phone, service_name, specialist_name, day, time) ==
    validate_appointment_data(pats, appts, c, name, phone, service_name, specialist_name, day, time,
                              appointment_id)

\* ValidationManager.get_validation_summary raises KeyError('time') when it
\* formats an entry of suggest_alternative_dates, which has no 'time' key
summary_raises(vr) == ~vr.is_valid /\ vr.alternatives = "dates"

\* the text of get_validation_summary, by the markers the dialogue looks for
summary_message(vr) ==
    [kind |-> "summary",
     recommends |-> vr.has_suggestions,
     closed |-> vr.errors \cap {"weekend", "holiday"} # {}]

Message(kind) == [kind |-> kind, recommends |-> FALSE, closed |-> FALSE]

(***************************************************************************)
(* LiteSmartSecretary: the booking operations.                             *)
(***************************************************************************)
AppointmentRow(patient, specialist, service, start, end, notes) ==
    [patient |-> patient, specialist |-> specialist, service |-> service,
     start |-> start, end |-> end, status |-> "pending", notes |-> notes]

\* the rows Patient.objects.get(phone=...) of get_or_create finds
patients_with(pats, phone) == {p \in 1 .. Len(pats) : pats[p].phone = phone}

\* Patient.objects.get_or_create when it does not raise: the table afterwards
get_or_create(pats, phone) ==
    IF patients_with(pats, phone) = {} THEN Append(pats, [phone |-> phone]) ELSE pats

\* Patient.objects.get_or_create when it does not raise: the id of its row
got_or_created(pats, phone) ==
    IF patients_with(pats, phone) = {} THEN Len(pats) + 1
    ELSE CHOOSE p \in patients_with(pats, phone) : TRUE

Result(ok, msg, pats, appts, c, completed) ==
    [ok |-> ok, msg |-> msg, patients |-> pats, appointments |-> appts, cache |-> c,
     completed |-> completed]

\* _create_simple_appointment, from the cleaned phone, the specialists its
\* name__icontains query finds, and the day and time it settles on
simple_appointment(pats, appts, c, key, found, service_name, d, t) ==
    IF Cardinality(patients_with(pats, key)) > 1
    THEN Result(FALSE, Message("simple_failed"), pats, appts, c, FALSE)
    ELSE IF service_name \notin DOMAIN ServiceRows
    THEN Result(FALSE, Message("simple_no_service"), get_or_create(pats, key), appts, c, FALSE)
    ELSE IF Cardinality(found) > 1
    THEN Result(FALSE, Message("simple_failed"), get_or_create(pats, key), appts, c, FALSE)
    ELSE Result(TRUE, Message("created"), get_or_create(pats, key),
                Append(appts, AppointmentRow(got_or_created(pats, key),
                                             IF found = {} THEN SpecialistRows[1]
                                             ELSE SpecialistRows[CHOOSE i \in found : TRUE],
                                             service_name,
                                             make_aware(d, t),
                                             make_aware(d, t) + ServiceRows[service_name],
                                             "simple")),
                c, FALSE)

\* LiteSmartSecretary._create_simple_appointment
create_simple_appointment(pats, appts, c, name, phone, service_name, specialist_name, day, time) ==
    simple_appointment(pats, appts, c, simple_phone(phone), specialists_containing(specialist_name),
                       service_name,
                       IF day.kind = "today" THEN 0 ELSE 1,
                       IF strptime_HM(time).ok THEN strptime_HM(time).t ELSE 10 * 60)

\* the pre-check of create_appointment for 'сегодня' with a time that is past or too close
precheck_applies(specialist_name, day, time) ==
    /\ day.kind = "today"
    /\ strptime_HM(time).ok
    /\ strptime_HM(time).t <= now + BufferMinutes
    /\ Cardinality(specialists_containing(specialist_name)) = 1

\* the result of the pre-check: the slots of today are offered, or none is left
precheck_result(pats, appts, c, specialist, duration) ==
    Result(FALSE,
           IF get_available_slots(c, appts, specialist, 0, duration) # {}
           THEN Message("today_slots") ELSE Message("today_full"),
           pats, appts, cache_after_slots(c, appts, specialist, 0, duration), FALSE)

\* create_appointment after validate_appointment_data returned vr
create_validated(pats, appts, c, name, phone, service_name, specialist_name, day, time, vr) ==
    IF ~vr.is_valid
    THEN (IF summary_raises(vr)
          THEN create_simple_appointment(pats, appts, vr.cache, name, phone, service_name,
                                         specialist_name, day, time)
          ELSE Result(FALSE, summary_message(vr), pats, appts, vr.cache, FALSE))
    ELSE IF Cardinality(patients_with(pats, vr.phone)) > 1
    THEN create_simple_appointment(pats, appts, vr.cache, name, phone, service_name,
                                   specialist_name, day, time)
    ELSE IF ~vr.has_date
    THEN Result(FALSE, Message("missing_data"), get_or_create(pats, vr.phone), appts,
                vr.cache, FALSE)
    ELSE Result(TRUE, Message("created"), get_or_create(pats, vr.phone),
                Append(appts, AppointmentRow(got_or_created(pats, vr.phone), vr.specialist.row,
                                             vr.service.row,
                                             make_aware(vr.date, vr.time),
                                             make_aware(vr.date, vr.time) + vr.duration, "chat")),
                vr.cache, TRUE)

\* LiteSmartSecretary.create_appointment, run to its end without interruption
create_appointment(pats, appts, c, name, phone, service_name, specialist_name, day, time) ==
    IF precheck_applies(specialist_name, day, time)
    THEN precheck_result(pats, appts, c,
                         SpecialistRows[CHOOSE i \in specialists_containing(specialist_name) : TRUE],
                         IF service_name \in DOMAIN ServiceRows THEN ServiceRows[service_name] ELSE 60)
    ELSE create_validated(pats, appts, c, name, phone, service_name, specialist_name, day, time,
                          validate_appointment_data(pats, appts, c, name, phone, service_name,
                                                    specialist_name, day, time, 0))

\* a cancel_appointment that sets the status and does not save the row
cancel_appointment_unsaved(appts, id) == appts

\* LiteSmartSecretary.cancel_appointment: the table afterwards
cancel_appointment(appts, id) ==
    IF id \in 1 .. Len(appts)
    THEN [appts EXCEPT ![id].status = "cancelled"]
    ELSE appts

(***************************************************************************)
(* The session store (LiteSessionManager).                                 *)
(***************************************************************************)
NoName == ""
NoPhone == Phone("none", 0)
NoService == ""
NoSpecialist == ""
NoDay == DayStr("empty", 0)
NoTimeStr == TimeStr("empty", 0, 0)

\* the session LiteSessionManager.get_session creates for an unknown id
NewSession ==
    [state |-> "greeting",
     entities |-> [name |-> NoName, phone |-> NoPhone, service |-> NoService,
                   specialist |-> NoSpecialist, date |-> NoDay, time |-> NoTimeStr,
                   appointment_id |-> 0],
     history |-> << >>,
     logged |-> 0]

\* a get_session that starts a store over for an unknown id
get_session_forgetting(store, sid) ==
    IF sid \in DOMAIN store THEN store
    ELSE [k \in {sid} |-> NewSession]

\* LiteSessionManager.get_session: the store afterwards
get_session(store, sid) ==
    IF sid \in DOMAIN store THEN store
    ELSE [k \in DOMAIN store \cup {sid} |-> IF k = sid THEN NewSession ELSE store[k]]

\* step 6 of create_appointment: the session records the appointment
complete_session(store, sid, appointment_id) ==
    [get_session(store, sid) EXCEPT ![sid].entities.appointment_id = appointment_id,
                                    ![sid].state = "completed"]

(***************************************************************************)
(* Calls made one after the other (the booking API and the admin API).     *)
(***************************************************************************)
ApiSessions == {"api"}
ApiNames == {"Ivan"}
ApiPhones == {Phone("local", 1), Phone("local", 2)}
ApiServices == {"nutri"}
ApiSpecialists == {"Ekaterina", "Rimma", "a"}
ApiDays == {DayStr("today", 0), DayStr("iso", 1), DayStr("iso", 5)}
ApiTimes == {TimeStr("colon", 10, 0), TimeStr("colon", 10, 30)}
QueryDays == {1}
QueryDurations == {60}

NoCall == [op |-> "none", ok |-> FALSE, msg |-> Message("none"), id |-> 0,
           patientsBefore |-> 0, appointmentsBefore |-> 0, day |-> NoDay, time |-> NoTimeStr]

NoTurn == [sid |-> "", intent |-> "none", next_field |-> "none", attempted |-> FALSE, ok |-> FALSE,
           keys |-> {}, reply |-> "", booked |-> 0, extracted |-> {}]

NoQuery == [fresh |-> FALSE, specialist |-> "", d |-> 0, duration |-> 0, slots |-> {}]

NoCheck == [op |-> "none", id |-> 0, name |-> NoName, phone |-> NoPhone, service |-> NoService,
            specialist |-> NoSpecialist, day |-> NoDay, time |-> NoTimeStr,
            is_valid |-> FALSE, errors |-> {}, data |-> {}]

NoPhoneResult == [ok |-> FALSE, country |-> "", formatted |-> << >>]

NoPhoneCheck == [digits |-> << >>, spelling |-> "none", first |-> NoPhoneResult,
                 second |-> NoPhoneResult]

\* empty tables, an empty cache and an empty session store
InitTables ==
    /\ patients = << >>
    /\ appointments = << >>
    /\ cache = << >>
    /\ now = 9 * 60 + 30
    /\ lastCall = NoCall
    /\ lastQuery = NoQuery
    /\ tx = << >>
    /\ sessions = << >>
    /\ lastTurn = NoTurn
    /\ nMsgs = 0
    /\ lastCheck = NoCheck

Init ==
    /\ InitTables
    /\ lastPhone = NoPhoneCheck

\* a create_appointment call for day and time returns r: the tables, the cache
\* and the session afterwards
ApplyResult(sid, r, day, time) ==
    /\ patients' = r.patients
    /\ appointments' = r.appointments
    /\ cache' = r.cache
    /\ sessions' = IF r.completed
                   THEN complete_session(sessions, sid, Len(r.appointments))
                   ELSE sessions
    /\ lastCall' = [op |-> "create", ok |-> r.ok, msg |-> r.msg, id |-> 0,
                    patientsBefore |-> Len(patients),
                    appointmentsBefore |-> Len(appointments),
                    day |-> day, time |-> time]

\* one create_appointment call, from its first line to its return, with its
\* arguments drawn from the given sets
CreateAppointmentWith(cap, sids, names, phones, services, specialists, days, times) ==
    /\ Len(appointments) < cap
    /\ \E sid \in sids, name \in names, phone \in phones, service \in services,
          specialist \in specialists, day \in days, time \in times :
          ApplyResult(sid, create_appointment(patients, appointments, cache, name, phone, service,
                                              specialist, day, time), day, time)
    /\ lastQuery' = [lastQuery EXCEPT !.fresh = FALSE]
    /\ UNCHANGED <<now, tx, lastTurn, nMsgs, lastCheck, lastPhone>>

CreateAppointment ==
    CreateAppointmentWith(MaxAppointments, ApiSessions, ApiNames, ApiPhones, ApiServices, ApiSpecialists,
                          ApiDays, ApiTimes)

\* one cancel_appointment call, for an id that exists or the first that does not
CancelAppointment ==
    /\ \E id \in 1 .. Len(appointments) + 1 :
          /\ appointments' = cancel_appointment(appointments, id)
          /\ lastCall' = [NoCall EXCEPT !.op = "cancel", !.ok = (id \in 1 .. Len(appointments)),
                                        !.id = id,
                                        !.patientsBefore = Len(patients),
                                        !.appointmentsBefore = Len(appointments)]
    /\ lastQuery' = [lastQuery EXCEPT !.fresh = FALSE]
    /\ UNCHANGED <<patients, cache, now, tx, sessions, lastTurn, nMsgs, lastCheck, lastPhone>>

\* one AvailabilityValidator.get_available_slots call (api_views, admin_validation_api)
GetAvailableSlots ==
    /\ \E specialist \in Specialists, d \in QueryDays, duration \in QueryDurations :
          /\ lastQuery' = [fresh |-> TRUE, specialist |-> specialist, d |-> d,
                           duration |-> duration,
                           slots |-> get_available_slots(cache, appointments, specialist, d, duration)]
          /\ cache' = cache_after_slots(cache, appointments, specialist, d, duration)
    /\ UNCHANGED <<patients, appointments, now, lastCall, tx, sessions, lastTurn, nMsgs, lastCheck, lastPhone>>

\* a cache entry reaches its time to live of 300 seconds
CacheExpire ==
    /\ \E k \in DOMAIN cache :
          cache' = [j \in DOMAIN cache \ {k} |-> cache[j]]
    /\ lastQuery' = [lastQuery EXCEPT !.fresh = FALSE]
    /\ UNCHANGED <<patients, appointments, now, lastCall, tx, sessions, lastTurn, nMsgs, lastCheck, lastPhone>>

Next == CreateAppointment \/ CancelAppointment

Spec == Init /\ [][Next]_vars

(***************************************************************************)
(* Slot queries between bookings and cancellations of one specialist.      *)
(***************************************************************************)
SlotTimes == {TimeStr("colon", 10, 0), TimeStr("colon", 10, 30)}

BookSlot ==
    CreateAppointmentWith(MaxSlotBookings, ApiSessions, {"Ivan"}, {Phone("local", 1), Phone("local", 2)},
                          {"nutri"}, {"Ekaterina"}, {DayStr("iso", 1)}, SlotTimes)

NextSlots == BookSlot \/ CancelAppointment \/ GetAvailableSlots \/ CacheExpire

SpecSlots == Init /\ [][NextSlots]_vars

(***************************************************************************)
(* Claims about the tables after calls made one after the other.           *)
(***************************************************************************)
ActivePairs ==
    {<<i, j>> \in (1 .. Len(appointments)) \X (1 .. Len(appointments)) :
        i < j /\ Active(appointments[i]) /\ Active(appointments[j])}

Disjoint(a, b) == a.end <= b.start \/ b.end <= a.start

\* C1: after any sequence of create_appointment and cancel_appointment calls,
\* no two pending or confirmed appointments of the same specialist overlap.
C1_NoSpecialistOverlap ==
    \A p \in ActivePairs :
        appointments[p[1]].specialist = appointments[p[2]].specialist
            => Disjoint(appointments[p[1]], appointments[p[2]])

\* C2: after any sequence of create_appointment and cancel_appointment calls,
\* no patient (by phone) holds two pending or confirmed appointments that overlap.
C2_NoPatientOverlap ==
    \A p \in ActivePairs :
        patients[appointments[p[1]].patient].phone = patients[appointments[p[2]].patient].phone
            => Disjoint(appointments[p[1]], appointments[p[2]])

\* C5: a create_appointment call that returns failure has added no Patient
\* and no Appointment row; one that returns success has added exactly one
\* Appointment row.
C5_FailureLeavesDatabase ==
    lastCall.op = "create" =>
        IF lastCall.ok
        THEN Len(appointments) = lastCall.appointmentsBefore + 1
        ELSE /\ Len(appointments) = lastCall.appointmentsBefore
             /\ Len(patients) = lastCall.patientsBefore

\* two rows of the same patient and specialist for the same interval
SameRow(a, b) ==
    a.patient = b.patient /\ a.specialist = b.specialist /\ a.start = b.start /\ a.end = b.end

\* the last create_appointment call returned success and added a row
CreatedRow == lastCall.op = "create" /\ lastCall.ok /\ Len(appointments) > lastCall.appointmentsBefore

\* the row starts at the date pd and the time pt the strings of the call
\* stand for, and validate_date and validate_time accept them
StartsAsSupplied(row, pd, pt) ==
    /\ pd.ok /\ pt.ok
    /\ row.start = make_aware(pd.d, pt.t)
    /\ validate_date(pd.d) = "ok"
    /\ validate_time(pt.t, pd.d) = "ok"

\* C17: every appointment created through create_appointment has the date
\* and time the user supplied, lies on an accepted date and time, and did not
\* overlap an active appointment of its specialist when it was created,
\* whatever error occurred on the way.
C17_CreatedOnlyIfValid ==
    CreatedRow =>
        /\ StartsAsSupplied(appointments[Len(appointments)], parse_date_string(lastCall.day),
                            parse_time_string(lastCall.time))
        /\ check_appointment_conflicts(SubSeq(appointments, 1, Len(appointments) - 1),
                                       appointments[Len(appointments)].specialist,
                                       appointments[Len(appointments)].start,
                                       appointments[Len(appointments)].end, 0) = {}

\* the row is cancelled, and neither check_appointment_conflicts nor
\* check_patient_double_booking finds it for its own interval
Released(row, id) ==
    /\ row.status = "cancelled"
    /\ id \notin check_appointment_conflicts(appointments, row.specialist, row.start, row.end, 0)
    /\ id \notin check_patient_double_booking(patients, appointments, patients[row.patient].phone,
                                              row.start, row.end, 0)

\* a step in which cancel_appointment returns (False, message) changes no appointment
FailedCancelStep == (lastCall'.op = "cancel" /\ ~lastCall'.ok) => appointments' = appointments

\* C20: after cancel_appointment(id) returns (True, ...) the appointment has
\* status cancelled and no longer blocks its interval for its specialist or
\* its patient; for an id that does not exist cancel_appointment returns
\* (False, message) and changes no appointment.
C20_CancelReleases ==
    /\ []((lastCall.op = "cancel" /\ lastCall.ok) => Released(appointments[lastCall.id], lastCall.id))
    /\ [][FailedCancelStep]_vars

\* an appointment was cancelled and its interval was booked again, for the
\* same specialist and patient, through the validation
C20_Witness ==
    /\ CreatedRow
    /\ appointments[Len(appointments)].notes = "chat"
    /\ \E i \in 1 .. Len(appointments) - 1 :
          /\ appointments[i].status = "cancelled"
          /\ SameRow(appointments[i], appointments[Len(appointments)])

(***************************************************************************)
(* Claims about the slots offered.                                         *)
(***************************************************************************)
\* C6: every slot get_available_slots returns is free when it is returned: it
\* overlaps no pending or confirmed appointment of the specialist, also when
\* appointments were created or cancelled since an earlier query.
C6_ReturnedSlotsAreFree ==
    lastQuery.fresh =>
        \A t \in lastQuery.slots :
            check_appointment_conflicts(appointments, lastQuery.specialist,
                                        lastQuery.d * 1440 + t,
                                        lastQuery.d * 1440 + t + lastQuery.duration, 0) = {}

(***************************************************************************)
(* create_appointment calls of several web workers at once.  Each call     *)
(* runs in its own transaction (@transaction.atomic); a statement reads    *)
(* the rows committed when it runs, and the rows a call writes are seen by *)
(* the other calls when it commits.  A call is cut at its reads: the       *)
(* validation, the SELECT of get_or_create, and the writes with the        *)
(* commit.                                                                 *)
(***************************************************************************)
MaxWorkers == 2

Workers == 1 .. MaxWorkers

ConcName == "Ivan"
ConcService == "nutri"
ConcSpecialist == "Ekaterina"
ConcDay == DayStr("iso", 1)
ConcPhones == {Phone("local", 1), Phone("local", 2)}
ConcTimes == {TimeStr("colon", 10, 0), TimeStr("colon", 10, 30)}

\* a call that has been made and has not run a statement yet
TxCall(phone, time) ==
    [pc |-> "called", phone |-> phone, time |-> time, key |-> [cc |-> "", n |-> 0],
     specialist |-> "", service |-> "", start |-> 0, end |-> 0, patient |-> 0, ok |-> FALSE]

\* the call returns: its position and result
TxReturn(t, ok) == [t EXCEPT !.pc = "done", !.ok = ok]

CallRecord(ok, msg) ==
    [NoCall EXCEPT !.op = "create", !.ok = ok, !.msg = msg,
                   !.patientsBefore = Len(patients), !.appointmentsBefore = Len(appointments)]

\* a worker receives a booking request
TxBegin(w) ==
    /\ w \notin DOMAIN tx
    /\ \E phone \in ConcPhones, time \in ConcTimes :
          tx' = [k \in DOMAIN tx \cup {w} |-> IF k = w THEN TxCall(phone, time) ELSE tx[k]]
    /\ UNCHANGED <<patients, appointments, cache, now, lastCall, lastQuery, sessions, lastTurn, nMsgs, lastCheck, lastPhone>>

\* the call of worker w ends with the result r of the rest of create_appointment
TxFinish(w, r) ==
    /\ patients' = r.patients
    /\ appointments' = r.appointments
    /\ cache' = r.cache
    /\ lastCall' = CallRecord(r.ok, r.msg)
    /\ tx' = [tx EXCEPT ![w] = TxReturn(@, r.ok)]

\* create_appointment of worker w after validate_appointment_data returned vr
TxValidated(w, vr) ==
    IF precheck_applies(ConcSpecialist, ConcDay, tx[w].time) \/ ~vr.is_valid \/ ~vr.has_date
    THEN TxFinish(w, create_appointment(patients, appointments, cache, ConcName, tx[w].phone,
                                        ConcService, ConcSpecialist, ConcDay, tx[w].time))
    ELSE /\ cache' = vr.cache
         /\ tx' = [tx EXCEPT ![w].pc = "validated",
                             ![w].key = vr.phone,
                             ![w].specialist = vr.specialist.row,
                             ![w].service = vr.service.row,
                             ![w].start = make_aware(vr.date, vr.time),
                             ![w].end = make_aware(vr.date, vr.time) + vr.duration]
         /\ UNCHANGED <<patients, appointments, lastCall>>

\* create_appointment up to the end of validate_appointment_data; a call the
\* validation rejects goes on to its return
TxValidate(w) ==
    /\ w \in DOMAIN tx
    /\ tx[w].pc = "called"
    /\ TxValidated(w, validate_appointment_data(patients, appointments, cache, ConcName,
                                                tx[w].phone, ConcService, ConcSpecialist,
                                                ConcDay, tx[w].time, 0))
    /\ lastQuery' = [lastQuery EXCEPT !.fresh = FALSE]
    /\ UNCHANGED <<now, sessions, lastTurn, nMsgs, lastCheck, lastPhone>>

\* the SELECT of Patient.objects.get_or_create; several rows make it raise
\* and the call ends in _create_simple_appointment
TxGetPatient(w) ==
    /\ w \in DOMAIN tx
    /\ tx[w].pc = "validated"
    /\ IF Cardinality(patients_with(patients, tx[w].key)) > 1
       THEN TxFinish(w, create_simple_appointment(patients, appointments, cache, ConcName,
                                                  tx[w].phone, ConcService, ConcSpecialist,
                                                  ConcDay, tx[w].time))
       ELSE /\ tx' = [tx EXCEPT ![w].pc = "patient",
                                ![w].patient = IF patients_with(patients, tx[w].key) = {} THEN 0
                                               ELSE CHOOSE p \in patients_with(patients, tx[w].key) : TRUE]
            /\ UNCHANGED <<patients, appointments, cache, lastCall>>
    /\ lastQuery' = [lastQuery EXCEPT !.fresh = FALSE]
    /\ UNCHANGED <<now, sessions, lastTurn, nMsgs, lastCheck, lastPhone>>

\* the INSERT of get_or_create when no row was found, Appointment.objects.create,
\* the session update and the commit
TxCommit(w) ==
    /\ w \in DOMAIN tx
    /\ tx[w].pc = "patient"
    /\ patients' = IF tx[w].patient = 0 THEN Append(patients, [phone |-> tx[w].key]) ELSE patients
    /\ appointments' = Append(appointments,
                              AppointmentRow(IF tx[w].patient = 0 THEN Len(patients) + 1
                                             ELSE tx[w].patient,
                                             tx[w].specialist, tx[w].service,
                                             tx[w].start, tx[w].end, "chat"))
    /\ sessions' = complete_session(sessions, "api", Len(appointments) + 1)
    /\ lastCall' = CallRecord(TRUE, Message("created"))
    /\ tx' = [tx EXCEPT ![w] = TxReturn(@, TRUE)]
    /\ lastQuery' = [lastQuery EXCEPT !.fresh = FALSE]
    /\ UNCHANGED <<cache, now, lastTurn, nMsgs, lastCheck, lastPhone>>

NextConc ==
    \E w \in Workers : TxBegin(w) \/ TxValidate(w) \/ TxGetPatient(w) \/ TxCommit(w)

SpecConc == Init /\ [][NextConc]_vars

\* C3: of two create_appointment calls for the same specialist and
\* overlapping intervals, interleaved in any way, at most one creates an
\* appointment.
C3_AtMostOneCreates ==
    \A v \in DOMAIN tx, w \in DOMAIN tx :
        /\ v # w
        /\ tx[v].pc = "done" /\ tx[v].ok
        /\ tx[w].pc = "done" /\ tx[w].ok
        /\ tx[v].specialist = tx[w].specialist
        => ~Overlap(tx[v].start, tx[v].end, tx[w].start, tx[w].end)

\* C4: the Patient table holds at most one row per phone number, after any
\* sequence or interleaving of create_appointment calls.
C4_OnePatientPerPhone ==
    \A i \in 1 .. Len(patients), j \in 1 .. Len(patients) :
        patients[i].phone = patients[j].phone => i = j

(***************************************************************************)
(* The dialogue (LiteSmartSecretary.process_message).                      *)
(*                                                                         *)
(* The messages and what LiteEntityExtractor finds in them:                *)
(*   "privet"                   'привет'                  nothing          *)
(*   "massazh"                  'массаж'                  nothing          *)
(*   "osteopat"                 'остеопат'                name 'Остеопат', *)
(*                                           service 'Консультация остеопата' *)
(*   "konsultatsiya_osteopata"  'консультация остеопата'  the service      *)
(*   "Ivan"                     'Иван'                    name 'Иван'      *)
(*   "+972500000001"                                      the phone        *)
(*   "zavtra"                   'завтра'                  date of day 1    *)
(*   "10:00", "10:30"                                     the time         *)
(*   "uzhe_govoril"             'уже говорил'             a memory complaint *)
(*   "k_a_vrachu"               'к а врачу'               specialist 'А'   *)
(***************************************************************************)
Messages == {"privet", "massazh", "osteopat", "konsultatsiya_osteopata", "Ivan", "+972500000001",
             "zavtra", "10:00", "10:30", "uzhe_govoril", "k_a_vrachu"}

\* required_order of get_next_required_field
required_order == <<"service", "specialist", "name", "phone", "date", "time">>

FieldNames == {required_order[i] : i \in 1 .. Len(required_order)}

\* the six fields, all None
NoExtract == [name |-> NoName, phone |-> NoPhone, service |-> NoService,
              specialist |-> NoSpecialist, date |-> NoDay, time |-> NoTimeStr]

\* LiteEntityExtractor.extract_name, extract_phone, extract_service,
\* extract_specialist, extract_date and extract_time on a message
extract(msg) ==
    CASE msg = "osteopat"                -> [NoExtract EXCEPT !.name = "Osteopat", !.service = "osteo"]
      [] msg = "konsultatsiya_osteopata" -> [NoExtract EXCEPT !.service = "osteo"]
      [] msg = "Ivan"                    -> [NoExtract EXCEPT !.name = "Ivan"]
      [] msg = "+972500000001"           -> [NoExtract EXCEPT !.phone = Phone("intl", 1)]
      [] msg = "zavtra"                  -> [NoExtract EXCEPT !.date = DayStr("iso", 1)]
      [] msg = "10:00"                   -> [NoExtract EXCEPT !.time = TimeStr("colon", 10, 0)]
      [] msg = "10:30"                   -> [NoExtract EXCEPT !.time = TimeStr("colon", 10, 30)]
      [] msg = "k_a_vrachu"              -> [NoExtract EXCEPT !.specialist = "a"]
      [] OTHER                           -> NoExtract

\* the names of the fields update_entities extracts: the empty ones the message fills
extracted_fields(entities, msg) ==
    {f \in FieldNames : entities[f] = NoExtract[f] /\ extract(msg)[f] # NoExtract[f]}

\* LiteSessionManager.update_entities: the entities afterwards
update_entities(entities, msg) ==
    [f \in DOMAIN entities |->
        IF f \in extracted_fields(entities, msg) THEN extract(msg)[f] ELSE entities[f]]

\* LiteSessionManager.get_next_required_field; "none" is None
get_next_required_field(entities) ==
    IF \A i \in 1 .. Len(required_order) : entities[required_order[i]] # NoExtract[required_order[i]]
    THEN "none"
    ELSE required_order[CHOOSE i \in 1 .. Len(required_order) :
                            /\ entities[required_order[i]] = NoExtract[required_order[i]]
                            /\ \A j \in 1 .. i - 1 :
                                  entities[required_order[j]] # NoExtract[required_order[j]]]

\* add_to_history, the cut: history[-10:] when there are more than 10 entries
history_cut(h) ==
    IF Len(h) > HistoryLimit THEN SubSeq(h, Len(h) - HistoryLimit + 1, Len(h)) ELSE h

\* an add_to_history that keeps the oldest entries instead of the newest
add_to_history_oldest(session, role) ==
    [session EXCEPT !.history = SubSeq(Append(session.history,
                                              [role |-> role, n |-> session.logged + 1]),
                                       1, Min(Len(session.history) + 1, HistoryLimit)),
                    !.logged = session.logged + 1]

\* LiteSessionManager.add_to_history.  An entry is kept by its role and its
\* position n in the whole conversation of the session (logged counts them).
add_to_history(session, role) ==
    [session EXCEPT !.history = history_cut(Append(session.history,
                                                   [role |-> role, n |-> session.logged + 1])),
                    !.logged = session.logged + 1]

\* LiteSmartSecretary._is_memory_complaint
is_memory_complaint(msg) == msg = "uzhe_govoril"

\* the words _handle_normal_flow looks for while the service is missing:
\* 'консультация', 'массаж', 'диагностика'
names_service_kind(msg) == msg \in {"massazh", "konsultatsiya_osteopata"}

\* LiteSmartSecretary._get_specialists_for_service
get_specialists_for_service(service) ==
    CASE service = "osteo"         -> <<"Ekaterina">>
      [] service = "nutri"         -> <<"Rimma">>
      [] service = "child_massage" -> <<"Avraam">>
      [] OTHER                     -> <<"Avraam", "Ekaterina", "Rimma">>

\* the result of a turn that makes no booking attempt
Reply(entities, state, intent, next_field, pats, appts, c) ==
    [entities |-> entities, state |-> state, intent |-> intent, next_field |-> next_field,
     attempted |-> FALSE, ok |-> FALSE, msg |-> Message("none"), raised |-> FALSE,
     patients |-> pats, appointments |-> appts, cache |-> c]

\* a turn in which _handle_normal_flow raises: the entities are as
\* update_entities left them, and process_message answers in its except branch
Raised(entities, state, next_field, pats, appts, c) ==
    [Reply(entities, state, "error", next_field, pats, appts, c) EXCEPT !.raised = TRUE]

\* DateParser.extract_datetime finds a date word in the message
date_parser_finds(msg) == msg = "zavtra"

\* _ask_for_time_with_calendar raises MultipleObjectsReturned: the message
\* names a day and Specialist.objects.get(name__icontains=...) finds several rows
ask_for_time_raises(entities, msg) ==
    /\ date_parser_finds(msg)
    /\ entities.specialist # NoSpecialist
    /\ Cardinality(specialists_containing(entities.specialist)) > 1

\* _handle_normal_flow when all six fields are filled: the outcome r of
\* create_appointment decides the reply and what is reset
flow_booking(e1, state, r) ==
    [entities |-> IF r.ok
                  THEN (IF r.completed THEN [e1 EXCEPT !.appointment_id = Len(r.appointments)]
                        ELSE e1)
                  ELSE IF r.msg.kind = "today_slots" THEN [e1 EXCEPT !.time = NoTimeStr]
                  ELSE IF r.msg.closed THEN [e1 EXCEPT !.date = NoDay, !.time = NoTimeStr]
                  ELSE IF r.msg.recommends THEN [e1 EXCEPT !.time = NoTimeStr]
                  ELSE e1,
     state |-> IF r.ok THEN (IF r.completed THEN "completed" ELSE state)
               ELSE IF r.msg.kind = "today_slots" THEN "collecting_time"
               ELSE IF r.msg.closed THEN "collecting_date"
               ELSE IF r.msg.recommends THEN "collecting_time"
               ELSE state,
     intent |-> IF r.ok THEN "booking_completed"
                ELSE IF r.msg.kind = "today_slots" THEN "collect_time"
                ELSE IF r.msg.closed THEN "collect_date"
                ELSE IF r.msg.recommends THEN "collect_time"
                ELSE "booking_error",
     next_field |-> "none",
     attempted |-> TRUE, ok |-> r.ok, msg |-> r.msg, raised |-> FALSE,
     patients |-> r.patients, appointments |-> r.appointments, cache |-> r.cache]

\* _handle_normal_flow from the next required field on
flow_next(pats, appts, c, e1, state, msg, next_field) ==
    CASE next_field = "none" ->
           flow_booking(e1, state,
                        create_appointment(pats, appts, c, e1.name, e1.phone, e1.service,
                                           e1.specialist, e1.date, e1.time))
      [] next_field = "service" ->
           Reply(e1, state, IF names_service_kind(msg) THEN "collect_specialist"
                            ELSE "collect_service",
                 next_field, pats, appts, c)
      [] next_field = "specialist" ->
           IF Len(get_specialists_for_service(e1.service)) = 1
           THEN Reply([e1 EXCEPT !.specialist = get_specialists_for_service(e1.service)[1]],
                      state, "collect_name", "name", pats, appts, c)
           ELSE Reply(e1, state, "collect_specialist", next_field, pats, appts, c)
      [] next_field = "name"  -> Reply(e1, state, "collect_name", next_field, pats, appts, c)
      [] next_field = "phone" -> Reply(e1, state, "collect_phone", next_field, pats, appts, c)
      [] next_field = "date"  -> Reply(e1, state, "collect_date", next_field, pats, appts, c)
      [] OTHER                -> IF ask_for_time_raises(e1, msg)
                                 THEN Raised(e1, state, next_field, pats, appts, c)
                                 ELSE Reply(e1, state, "collect_time", next_field, pats, appts, c)

\* _handle_normal_flow after the specialist was selected for a service just extracted
flow_selected(pats, appts, c, e1, state, msg) ==
    flow_next(pats, appts, c, e1, state, msg, get_next_required_field(e1))

\* LiteSmartSecretary._handle_normal_flow, on the entities update_entities left
handle_normal_flow(pats, appts, c, entities, state, extracted, msg) ==
    flow_selected(pats, appts, c,
                  IF /\ "service" \in extracted
                     /\ entities.specialist = NoSpecialist
                     /\ Len(get_specialists_for_service(entities.service)) = 1
                  THEN [entities EXCEPT !.specialist = get_specialists_for_service(entities.service)[1]]
                  ELSE entities,
                  state, msg)

\* a process_message without its except branch: an error inside leaves no result
result_keys_without_except(response) ==
    IF response.raised THEN {}
    ELSE IF response.intent = "memory_recovery"
         THEN {"reply", "intent", "remembered_data", "session_id"}
         ELSE {"reply", "intent", "next_field", "progress", "session_data", "session_id", "entities"}

\* the keys of the dict process_message returns: that of its except branch,
\* of _handle_memory_complaint, or of _handle_normal_flow with 'entities' added
result_keys(response) ==
    IF response.raised THEN {"reply", "intent", "error", "session_id"}
    ELSE IF response.intent = "memory_recovery"
         THEN {"reply", "intent", "remembered_data", "session_id"}
         ELSE {"reply", "intent", "next_field", "progress", "session_data", "session_id", "entities"}

\* the text under 'reply', by its kind: the apology of the except branch or
\* the text that goes with the intent
reply_text(response) == IF response.raised THEN "izvinite_oshibka" ELSE response.intent

\* _process_with_lite_logic, step 4: the reply is logged and returned (the
\* turn keeps the appointment_id the session had and the fields the message
\* filled); when
\* step 3 raised, the session keeps what the turn did to it so far and
\* process_message returns the dict of its except branch
turn_answered(store, sid, s0, extracted, response) ==
    [sessions |-> [store EXCEPT ![sid] =
                      IF response.raised THEN [s0 EXCEPT !.entities = response.entities]
                      ELSE add_to_history([s0 EXCEPT !.entities = response.entities,
                                                     !.state = response.state],
                                          "assistant")],
     patients |-> response.patients,
     appointments |-> response.appointments,
     cache |-> response.cache,
     turn |-> [sid |-> sid, intent |-> response.intent, next_field |-> response.next_field,
               attempted |-> response.attempted, ok |-> response.ok,
               keys |-> result_keys(response), reply |-> reply_text(response),
               booked |-> s0.entities.appointment_id, extracted |-> extracted],
     msg |-> response.msg]

\* _process_with_lite_logic, steps 2 and 3, on the session s0 that logged the message
turn_logged(store, pats, appts, c, sid, msg, s0) ==
    turn_answered(store, sid, s0,
                  IF is_memory_complaint(msg) THEN {} ELSE extracted_fields(s0.entities, msg),
                  IF is_memory_complaint(msg)
                  THEN Reply(s0.entities, s0.state, "memory_recovery", "none", pats, appts, c)
                  ELSE handle_normal_flow(pats, appts, c, update_entities(s0.entities, msg),
                                          s0.state, extracted_fields(s0.entities, msg), msg))

\* process_message on the store in which get_session found or created the session
turn_in(store, pats, appts, c, sid, msg) ==
    turn_logged(store, pats, appts, c, sid, msg, add_to_history(store[sid], "user"))

\* LiteSmartSecretary.process_message (_process_with_lite_logic): the store,
\* the tables and the response after one message of session sid
process_message(store, pats, appts, c, sid, msg) ==
    turn_in(get_session(store, sid), pats, appts, c, sid, msg)

\* the users of the chat: one dialogue with every message, a second one beside it
ChatInputs ==
    ({"s1"} \X Messages) \cup ({"s2"} \X {"privet", "Ivan", "10:00"})

\* a process_message call returns t: the store and the tables afterwards
ApplyTurn(t) ==
    /\ sessions' = t.sessions
    /\ patients' = t.patients
    /\ appointments' = t.appointments
    /\ cache' = t.cache
    /\ lastTurn' = t.turn
    /\ lastCall' = IF t.turn.attempted THEN CallRecord(t.turn.ok, t.msg) ELSE lastCall

\* one process_message call
ProcessMessage ==
    /\ nMsgs < MaxMessages
    /\ \E in \in ChatInputs :
          ApplyTurn(process_message(sessions, patients, appointments, cache, in[1], in[2]))
    /\ nMsgs' = nMsgs + 1
    /\ lastQuery' = [lastQuery EXCEPT !.fresh = FALSE]
    /\ UNCHANGED <<now, tx, lastCheck, lastPhone>>

NextChat == ProcessMessage

SpecChat == Init /\ [][NextChat]_vars

(***************************************************************************)
(* Claims about the dialogue.                                              *)
(***************************************************************************)
\* the field a reply asks for, by its intent
asked_field(intent) ==
    CASE intent = "collect_service"    -> "service"
      [] intent = "collect_specialist" -> "specialist"
      [] intent = "collect_name"       -> "name"
      [] intent = "collect_phone"      -> "phone"
      [] intent = "collect_date"       -> "date"
      [] intent = "collect_time"       -> "time"
      [] OTHER                         -> "none"

\* C7: at every turn the field the dialogue asks for is the first unfilled
\* field in the order service, specialist, name, phone, date, time, and a
\* booking is attempted only when none of the six fields is unfilled.
C7_AsksFirstUnfilled ==
    /\ asked_field(lastTurn.intent) # "none" =>
          asked_field(lastTurn.intent) = get_next_required_field(sessions[lastTurn.sid].entities)
    /\ lastTurn.attempted => lastTurn.next_field = "none"

CreatedEmpty(session) ==
    /\ session.logged = 2
    /\ \E msg \in Messages :
          \A f \in FieldNames :
              \/ session.entities[f] = NoExtract[f]
              \/ session.entities[f] = extract(msg)[f]
              \/ /\ f = "specialist"
                 /\ extract(msg).service # NoService
                 /\ session.entities[f] = get_specialists_for_service(extract(msg).service)[1]

\* the sessions of the store stay and the new ones are created empty
SessionsStay ==
    /\ \A sid \in DOMAIN sessions : sid \in DOMAIN sessions'
    /\ \A sid \in DOMAIN sessions' \ DOMAIN sessions : CreatedEmpty(sessions'[sid])
    /\ Cardinality(DOMAIN sessions') >= Cardinality(DOMAIN sessions)

\* the field f of session sid, once filled, keeps its value in this step
FieldKept(sid, f) ==
    sessions[sid].entities[f] # NoExtract[f] =>
        sessions'[sid].entities[f] = sessions[sid].entities[f]

\* C9 as stated: a session is created with all six fields empty by the first
\* message for its id and is never removed; every session stays in the store
\* with the fields collected so far, and the number of sessions never
\* decreases.
C9_SessionsKeepAllFields ==
    [][/\ SessionsStay
       /\ \A sid \in DOMAIN sessions : \A f \in FieldNames : FieldKept(sid, f)]_vars

\* C9 (amended): as above, except that the turn of a failed booking attempt
\* may empty the date and the time of its session; service, specialist, name
\* and phone, once collected, are kept.
C9_SessionsKeepFields ==
    [][/\ SessionsStay
       /\ \A sid \in DOMAIN sessions :
             /\ \A f \in {"service", "specialist", "name", "phone"} : FieldKept(sid, f)
             /\ \A f \in {"date", "time"} :
                   \/ FieldKept(sid, f)
                   \/ /\ lastTurn'.sid = sid
                      /\ lastTurn'.attempted
                      /\ ~lastTurn'.ok
                      /\ sessions'[sid].entities[f] = NoExtract[f]]_vars

\* two sessions in the store, one of them after a failed booking attempt that
\* emptied its time and kept the rest
C9_Witness ==
    /\ Cardinality(DOMAIN sessions) = 2
    /\ lastTurn.attempted
    /\ ~lastTurn.ok
    /\ sessions[lastTurn.sid].entities.time = NoTimeStr
    /\ \A f \in FieldNames \ {"time"} : sessions[lastTurn.sid].entities[f] # NoExtract[f]

\* the turn t a message would bring changes no field and books nothing
Repeats(sid, msg, t) ==
    /\ t.sessions[sid].entities = sessions[sid].entities
    /\ (is_memory_complaint(msg) \/ (t.turn.attempted /\ ~t.turn.ok))

\* every message the user can send next either is not acted on or repeats
\* the failed booking attempt, and leaves the fields as they are
Stuck(sid) ==
    /\ get_next_required_field(sessions[sid].entities) = "none"
    /\ \A msg \in Messages :
          Repeats(sid, msg, process_message(sessions, patients, appointments, cache, sid, msg))

\* C10: the dialogue does not loop: after a failed booking attempt the user
\* can replace the value that caused the failure; a session never reaches a
\* state in which every further message repeats the same failed attempt with
\* unchanged fields.
C10_NeverStuck ==
    \A sid \in DOMAIN sessions : ~Stuck(sid)

(***************************************************************************)
(* validate_appointment_data and validate_appointment_edit called on their *)
(* own (ValidationAPIView.post, the admin validation API), between         *)
(* bookings of one specialist.                                             *)
(***************************************************************************)
MaxCheckBookings == 2

CheckPhones == {Phone("local", 1), Phone("local", 2)}
CheckBookingTimes == {TimeStr("colon", 10, 0), TimeStr("colon", 11, 0)}

\* dates of a request: a past Thursday, today, Monday, the holiday 30.09, a
\* Friday, a Saturday, the last day allowed, the first day too far, no date
CheckDays ==
    {DayStr("iso", 0 - 3), DayStr("today", 0), DayStr("iso", 1), DayStr("iso", 2), DayStr("iso", 5),
     DayStr("iso", 6), DayStr("iso", MaxDaysAhead), DayStr("iso", MaxDaysAhead + 1), NoDay}

\* times of a request around the ends of the working hours and of the break
CheckTimes ==
    {TimeStr("colon", 8, 0), TimeStr("colon", 8, 59), TimeStr("colon", 9, 0), TimeStr("colon", 10, 0),
     TimeStr("colon", 12, 59), TimeStr("colon", 13, 0), TimeStr("colon", 13, 59),
     TimeStr("colon", 14, 0), TimeStr("colon", 18, 0), TimeStr("colon", 18, 59),
     TimeStr("colon", 19, 0), TimeStr("colon", 20, 0), TimeStr("hour", 18, 0), TimeStr("hour", 19, 0)}

\* the requests: <<name, phone, service, specialist, day, time>>
CheckInputs ==
    ({"Ivan"} \X {Phone("local", 1)} \X {"nutri"} \X {"Ekaterina"} \X CheckDays
        \X {TimeStr("colon", 10, 0), TimeStr("colon", 12, 0), NoTimeStr})
    \cup ({"Ivan"} \X CheckPhones \X {"nutri"} \X {"Ekaterina"} \X {DayStr("iso", 1)} \X CheckTimes)
    \cup ({"Ivan", "Osteopat", NoName} \X {Phone("local", 1), Phone("short", 1)}
            \X {"nutri", "child_massage"} \X {"Ekaterina", "Avraam"}
            \X {DayStr("iso", 1), DayStr("iso", 5)} \X {TimeStr("colon", 10, 0), NoTimeStr})

\* the keys of result['data'] among the six validated fields
data_keys(vr) ==
    (IF vr.has_name THEN {"name"} ELSE {})
    \cup (IF vr.has_phone THEN {"phone"} ELSE {})
    \cup (IF vr.service.ok THEN {"service"} ELSE {})
    \cup (IF vr.specialist.ok THEN {"specialist"} ELSE {})
    \cup (IF vr.has_date THEN {"date", "time"} ELSE {})

\* a validation call returns vr: the call, its result and the cache afterwards
ApplyCheck(op, id, in, vr) ==
    /\ lastCheck' = [op |-> op, id |-> id, name |-> in[1], phone |-> in[2], service |-> in[3],
                     specialist |-> in[4], day |-> in[5], time |-> in[6],
                     is_valid |-> vr.is_valid, errors |-> vr.errors, data |-> data_keys(vr)]
    /\ cache' = vr.cache

\* one validate_appointment_data call
ValidateAppointmentData ==
    /\ \E in \in CheckInputs :
          ApplyCheck("validate", 0, in,
                     validate_appointment_data(patients, appointments, cache, in[1], in[2], in[3],
                                               in[4], in[5], in[6], 0))
    /\ UNCHANGED <<patients, appointments, now, lastCall, lastQuery, tx, sessions, lastTurn, nMsgs,
                   lastPhone>>

\* one validate_appointment_edit call for an appointment of the table
ValidateAppointmentEdit ==
    /\ \E id \in 1 .. Len(appointments), phone \in CheckPhones, time \in CheckBookingTimes :
          ApplyCheck("edit", id, <<"Ivan", phone, "nutri", "Ekaterina", DayStr("iso", 1), time>>,
                     validate_appointment_edit(patients, appointments, cache, id, "Ivan", phone,
                                               "nutri", "Ekaterina", DayStr("iso", 1), time))
    /\ UNCHANGED <<patients, appointments, now, lastCall, lastQuery, tx, sessions, lastTurn, nMsgs,
                   lastPhone>>

\* one create_appointment call between the validation calls
BookForCheck ==
    /\ Len(appointments) < MaxCheckBookings
    /\ \E phone \in CheckPhones, time \in CheckBookingTimes :
          ApplyResult("api", create_appointment(patients, appointments, cache, "Ivan", phone, "nutri",
                                                "Ekaterina", DayStr("iso", 1), time),
                      DayStr("iso", 1), time)
    /\ lastCheck' = NoCheck
    /\ lastQuery' = [lastQuery EXCEPT !.fresh = FALSE]
    /\ UNCHANGED <<now, tx, lastTurn, nMsgs, lastPhone>>

NextValidate == BookForCheck \/ ValidateAppointmentData \/ ValidateAppointmentEdit

SpecValidate == Init /\ [][NextValidate]_vars

\* the date of the last validation call, as parse_date_string reads it
checked_date == parse_date_string(lastCheck.day)

\* C11: validate_appointment_data never returns is_valid = true for a date
\* that is before today, more than 365 days ahead, a Friday or Saturday, or a
\* fixed holiday.
C11_NoClosedDateAccepted ==
    (lastCheck.op = "validate" /\ lastCheck.is_valid /\ checked_date.ok) =>
        /\ checked_date.d >= 0
        /\ checked_date.d <= MaxDaysAhead
        /\ weekday(checked_date.d) \notin {4, 5}
        /\ MonthDay(checked_date.d) \notin FIXED_HOLIDAYS

\* the last validation call had a valid name, phone, service and specialist
OtherwiseValid ==
    /\ validate_name(lastCheck.name)
    /\ validate_phone(lastCheck.phone).ok
    /\ validate_service(lastCheck.service).ok
    /\ validate_specialist(lastCheck.specialist).ok

\* the date of the last validation call is a working day after today
FutureWorkingDay ==
    /\ checked_date.ok
    /\ checked_date.d >= 1
    /\ checked_date.d <= MaxDaysAhead
    /\ weekday(checked_date.d) \notin {4, 5}
    /\ MonthDay(checked_date.d) \notin FIXED_HOLIDAYS

\* the start time of the last validation call, in minutes after midnight
checked_time == parse_time_string(lastCheck.time)

\* C12: for a future working day, no existing appointments and otherwise valid
\* data, validate_appointment_data accepts a start time exactly when it lies in
\* 09:00 (inclusive) to 19:00 (exclusive) and outside the lunch break 13:00 to
\* 14:00.
C12_AcceptsWorkingHours ==
    (/\ lastCheck.op = "validate"
     /\ appointments = << >>
     /\ OtherwiseValid
     /\ FutureWorkingDay
     /\ checked_time.ok) =>
        (lastCheck.is_valid <=>
            /\ 9 * 60 <= checked_time.t
            /\ checked_time.t < 19 * 60
            /\ ~(13 * 60 <= checked_time.t /\ checked_time.t < 14 * 60))

\* the last start of the day, 18:59 on Monday, was accepted on an empty table
C12_Witness ==
    /\ lastCheck.op = "validate"
    /\ appointments = << >>
    /\ lastCheck.day = DayStr("iso", 1)
    /\ lastCheck.time = TimeStr("colon", 18, 59)
    /\ lastCheck.is_valid

\* the interval the last validation call asks for
checked_start == make_aware(checked_date.d, checked_time.t)
checked_end == checked_start + ServiceRows[lastCheck.service]

\* the active appointments other than the edited one that overlap the interval
\* asked for and have its specialist or its patient's phone
OthersInTheWay ==
    {j \in 1 .. Len(appointments) :
        /\ j # lastCheck.id
        /\ Active(appointments[j])
        /\ Overlap(checked_start, checked_end, appointments[j].start, appointments[j].end)
        /\ \/ appointments[j].specialist = lastCheck.specialist
           \/ patients[appointments[j].patient].phone = validate_phone(lastCheck.phone).formatted}

\* C13: validate_appointment_edit leaves the edited appointment out of the
\* conflict checks: a conflict is reported exactly when another active
\* appointment is in the way, so an appointment validated against its own
\* unchanged data has no conflict with itself.
C13_EditExcludesItself ==
    lastCheck.op = "edit" =>
        (lastCheck.errors \cap {"conflict", "double_booking"} # {} <=> OthersInTheWay # {})

\* C14: the result of validate_appointment_data is well-formed: is_valid is
\* true exactly when errors is empty, and a valid result carries all six
\* validated fields in its data map.
C14_ResultWellFormed ==
    lastCheck.op # "none" =>
        /\ lastCheck.is_valid <=> lastCheck.errors = {}
        /\ lastCheck.is_valid => FieldNames \subseteq lastCheck.data

Digits == {"0", "1", "2", "3", "4", "5", "6", "7", "8", "9"}

\* PhoneValidator.COUNTRY_OPERATORS: 'length' and 'country_code'
COUNTRY_LENGTH == [IL |-> 9, RU |-> 10, UA |-> 9, US |-> 10]

COUNTRY_CODE == [IL |-> <<"+", "9", "7", "2">>, RU |-> <<"+", "7">>,
                 UA |-> <<"+", "3", "8", "0">>, US |-> <<"+", "1">>]

\* PhoneValidator.COUNTRY_OPERATORS: the operator prefixes
IL_MOBILE == {<<"5", "0">>, <<"5", "1">>, <<"5", "2">>, <<"5", "3">>, <<"5", "4">>,
     <<"5", "5">>, <<"5", "6">>, <<"5", "7">>, <<"5", "8">>, <<"5", "9">>}

IL_LANDLINE == {<<"0", "2">>, <<"0", "3">>, <<"0", "4">>, <<"0", "8">>, <<"0", "9">>}

RU_MOBILE ==
    {<<"9", "0", "0">>, <<"9", "0", "1">>, <<"9", "0", "2">>, <<"9", "0", "3">>, <<"9", "0", "4">>,
     <<"9", "0", "5">>, <<"9", "0", "6">>, <<"9", "0", "8">>, <<"9", "0", "9">>, <<"9", "1", "0">>,
     <<"9", "1", "1">>, <<"9", "1", "2">>, <<"9", "1", "3">>, <<"9", "1", "4">>, <<"9", "1", "5">>,
     <<"9", "1", "6">>, <<"9", "1", "7">>, <<"9", "1", "8">>, <<"9", "1", "9">>, <<"9", "2", "0">>,
     <<"9", "2", "1">>, <<"9", "2", "2">>, <<"9", "2", "3">>, <<"9", "2", "4">>, <<"9", "2", "5">>,
     <<"9", "2", "6">>, <<"9", "2", "7">>, <<"9", "2", "8">>, <<"9", "2", "9">>, <<"9", "3", "0">>,
     <<"9", "3", "1">>, <<"9", "3", "2">>, <<"9", "3", "3">>, <<"9", "3", "4">>, <<"9", "3", "6">>,
     <<"9", "3", "7">>, <<"9", "3", "8">>, <<"9", "3", "9">>, <<"9", "5", "0">>, <<"9", "5", "1">>,
     <<"9", "5", "2">>, <<"9", "5", "3">>, <<"9", "5", "4">>, <<"9", "5", "5">>, <<"9", "5", "6">>,
     <<"9", "5", "8">>, <<"9", "6", "0">>, <<"9", "6", "1">>, <<"9", "6", "2">>, <<"9", "6", "3">>,
     <<"9", "6", "4">>, <<"9", "6", "5">>, <<"9", "6", "6">>, <<"9", "6", "7">>, <<"9", "6", "8">>,
     <<"9", "6", "9">>, <<"9", "7", "0">>, <<"9", "7", "1">>, <<"9", "7", "7">>, <<"9", "7", "8">>,
     <<"9", "8", "0">>, <<"9", "8", "1">>, <<"9", "8", "2">>, <<"9", "8", "3">>, <<"9", "8", "4">>,
     <<"9", "8", "5">>, <<"9", "8", "6">>, <<"9", "8", "7">>, <<"9", "8", "8">>, <<"9", "8", "9">>,
     <<"9", "9", "1">>, <<"9", "9", "2">>, <<"9", "9", "3">>, <<"9", "9", "4">>, <<"9", "9", "5">>,
     <<"9", "9", "6">>, <<"9", "9", "7">>, <<"9", "9", "9">>}

UA_MOBILE ==
    {<<"5", "0">>, <<"6", "3">>, <<"6", "6">>, <<"6", "7">>, <<"6", "8">>,
     <<"7", "3">>, <<"9", "1">>, <<"9", "2">>, <<"9", "3">>, <<"9", "4">>,
     <<"9", "5">>, <<"9", "6">>, <<"9", "7">>, <<"9", "8">>, <<"9", "9">>}

UA_LANDLINE ==
    {<<"3", "2">>, <<"3", "3">>, <<"3", "4">>, <<"3", "5">>, <<"3", "6">>,
     <<"3", "7">>, <<"3", "8">>, <<"4", "1">>, <<"4", "3">>, <<"4", "4">>,
     <<"4", "5">>, <<"4", "6">>, <<"4", "7">>, <<"4", "8">>, <<"4", "9">>}

\* str.startswith
StartsWith(text, prefix) ==
    Len(text) >= Len(prefix) /\ SubSeq(text, 1, Len(prefix)) = prefix

\* text[k:], with k characters dropped
Drop(text, k) == SubSeq(text, k + 1, Len(text))

\* text[:k]
Take(text, k) == SubSeq(text, 1, Min(k, Len(text)))

IsPhoneChar(ch) == ch \in Digits \cup {"+"}

\* str.lstrip('+')
lstrip_plus(text) ==
    Drop(text, Cardinality({k \in 1 .. Len(text) : \A i \in 1 .. k : text[i] = "+"}))

\* PhoneValidator.clean_phone
clean_phone(phone) ==
    IF StartsWith(SelectSeq(phone, IsPhoneChar), <<"+", "+">>)
    THEN <<"+">> \o lstrip_plus(SelectSeq(phone, IsPhoneChar))
    ELSE SelectSeq(phone, IsPhoneChar)

Detected(country, digits) == [country |-> country, digits |-> digits]

\* PhoneValidator.detect_country_by_phone
detect_country_by_phone(phone_clean) ==
    IF StartsWith(phone_clean, <<"+", "9", "7", "2">>) THEN Detected("IL", Drop(phone_clean, 4))
    ELSE IF StartsWith(phone_clean, <<"9", "7", "2">>) THEN Detected("IL", Drop(phone_clean, 3))
    ELSE IF StartsWith(phone_clean, <<"0">>) /\ Len(phone_clean) >= 9
         THEN Detected("IL", Drop(phone_clean, 1))
    ELSE IF Len(phone_clean) = 9 /\ phone_clean[1] \in {"5", "2", "3", "4", "8", "9"}
         THEN Detected("IL", phone_clean)
    ELSE IF StartsWith(phone_clean, <<"+", "7">>) THEN Detected("RU", Drop(phone_clean, 2))
    ELSE IF StartsWith(phone_clean, <<"7">>) /\ Len(phone_clean) = 11
         THEN Detected("RU", Drop(phone_clean, 1))
    ELSE IF StartsWith(phone_clean, <<"8">>) /\ Len(phone_clean) = 11
         THEN Detected("RU", Drop(phone_clean, 1))
    ELSE IF StartsWith(phone_clean, <<"+", "3", "8", "0">>) THEN Detected("UA", Drop(phone_clean, 4))
    ELSE IF StartsWith(phone_clean, <<"3", "8", "0">>) THEN Detected("UA", Drop(phone_clean, 3))
    ELSE IF StartsWith(phone_clean, <<"0">>) /\ Len(phone_clean) = 10
         THEN (IF Take(Drop(phone_clean, 1), 2) \in UA_MOBILE
               THEN Detected("UA", Drop(phone_clean, 1))
               ELSE Detected("UNKNOWN", phone_clean))
    ELSE IF StartsWith(phone_clean, <<"+", "1">>) THEN Detected("US", Drop(phone_clean, 2))
    ELSE IF StartsWith(phone_clean, <<"1">>) /\ Len(phone_clean) = 11
         THEN Detected("US", Drop(phone_clean, 1))
    ELSE Detected("UNKNOWN", phone_clean)

\* PhoneValidator.validate_phone_by_country: is the number valid
validate_phone_by_country(country, digits) ==
    IF country \notin DOMAIN COUNTRY_LENGTH THEN FALSE
    ELSE IF Len(digits) # COUNTRY_LENGTH[country] THEN FALSE
    ELSE CASE country = "IL" -> Take(digits, 2) \in IL_MOBILE \cup IL_LANDLINE
           [] country = "RU" -> \/ Take(digits, 3) \in RU_MOBILE
                                \/ digits[1] \in {"4", "8"}
           [] country = "UA" -> Take(digits, 2) \in UA_MOBILE \cup UA_LANDLINE
           [] OTHER          -> digits[1] \notin {"0", "1"} /\ digits[2] \notin {"0", "1"}

\* a format_phone that writes the local form, '0' and the digits
format_phone_local(country, digits) ==
    IF country \notin DOMAIN COUNTRY_CODE THEN digits ELSE <<"0">> \o digits

\* PhoneValidator.format_phone
format_phone(country, digits) ==
    IF country \notin DOMAIN COUNTRY_CODE THEN digits ELSE COUNTRY_CODE[country] \o digits

\* PhoneValidator.get_phone_info, from what detect_country_by_phone found:
\* is_valid, country and the formatted number
phone_info(found) ==
    IF found.country = "UNKNOWN" \/ ~validate_phone_by_country(found.country, found.digits)
    THEN [ok |-> FALSE, country |-> found.country, formatted |-> << >>]
    ELSE [ok |-> TRUE, country |-> found.country,
          formatted |-> format_phone(found.country, found.digits)]

\* PhoneValidator.get_phone_info
get_phone_info(phone) == phone_info(detect_country_by_phone(clean_phone(phone)))

\* PhoneValidator.validate_phone on the text of a number
validate_phone_text(phone) ==
    IF phone = << >> THEN [ok |-> FALSE, country |-> "UNKNOWN", formatted |-> << >>]
    ELSE get_phone_info(phone)

\* the numbers drawn: two leading digits and a tail that makes 9 or 8 digits
PhoneNumbers ==
    {<<d1, d2>> \o tail : d1 \in {"0", "2", "3", "5", "7", "9"}, d2 \in {"0", "2", "5", "7", "8"},
                          tail \in {<<"1", "2", "3", "4", "5", "6", "7">>,
                                    <<"1", "2", "3", "4", "5", "6">>}}

\* the four spellings of a number
Spellings == {"plus972", "972", "zero", "bare"}

Spell(spelling, digits) ==
    CASE spelling = "plus972" -> <<"+", "9", "7", "2">> \o digits
      [] spelling = "972"     -> <<"9", "7", "2">> \o digits
      [] spelling = "zero"    -> <<"0">> \o digits
      [] OTHER                -> digits

InitPhone ==
    /\ InitTables
    /\ lastPhone \in {[NoPhoneCheck EXCEPT !.digits = digits] : digits \in PhoneNumbers}

\* validate_phone returned first for a spelling; it is called again on the value it formatted
ApplyPhone(spelling, first) ==
    lastPhone' = [lastPhone EXCEPT !.spelling = spelling, !.first = first,
                                   !.second = IF first.ok THEN validate_phone_text(first.formatted)
                                              ELSE NoPhoneResult]

\* one validate_phone call on a spelling of the number
ValidatePhone ==
    /\ \E spelling \in Spellings :
          ApplyPhone(spelling, validate_phone_text(Spell(spelling, lastPhone.digits)))
    /\ UNCHANGED <<patients, appointments, cache, now, lastCall, lastQuery, tx, sessions, lastTurn,
                   nMsgs, lastCheck>>

NextPhone == ValidatePhone

SpecPhone == InitPhone /\ [][NextPhone]_vars

\* C16: validate_phone canonicalizes: every accepted spelling of an Israeli
\* number of 9 digits (+972, 972 or 0 before the digits, or the bare digits)
\* is reported as country IL with the formatted value '+972' and the digits,
\* and validating the formatted value again returns it unchanged.
C16_PhoneCanonical ==
    (lastPhone.spelling # "none" /\ lastPhone.first.ok) =>
        /\ lastPhone.first.country = "IL"
        /\ lastPhone.first.formatted = <<"+", "9", "7", "2">> \o lastPhone.digits
        /\ lastPhone.second = lastPhone.first

\* the bare 9 digits of a mobile number were accepted and formatted
C16_Witness ==
    /\ lastPhone.spelling = "bare"
    /\ Len(lastPhone.digits) = 9
    /\ lastPhone.first.ok
    /\ lastPhone.second.ok

(***************************************************************************)
(* A dialogue that goes on after its booking, with cancel_appointment      *)
(* calls in between.                                                       *)
(***************************************************************************)
NextRebook == ProcessMessage \/ CancelAppointment

SpecRebook == Init /\ [][NextRebook]_vars

\* two rows for the same patient, service, specialist and start
SameBooking(a, b) ==
    /\ a.patient = b.patient
    /\ a.service = b.service
    /\ a.specialist = b.specialist
    /\ a.start = b.start

\* C18: after process_message has returned booking_completed for a session,
\* no later message of the session that supplies no field value creates
\* another Appointment row with the data of the booked one, also when the
\* booked appointment has meanwhile been cancelled.
C18_BooksOncePerDialogue ==
    (lastTurn.attempted /\ lastTurn.ok /\ lastTurn.booked # 0 /\ lastTurn.extracted = {}) =>
        ~SameBooking(appointments[Len(appointments)], appointments[lastTurn.booked])

(***************************************************************************)
(* The status of an appointment under the admin actions (AppointmentAdmin) *)
(* and cancel_appointment.                                                 *)
(***************************************************************************)
MaxAdminRows == 2

\* the values of ?action= that changelist_view knows, and the status each writes
AdminActions == {"confirm", "cancel", "complete"}

status_of(action) ==
    CASE action = "confirm"  -> "confirmed"
      [] action = "cancel"   -> "cancelled"
      [] OTHER               -> "completed"

\* AppointmentAdmin.changelist_view with ?action=...&id=...: the table afterwards
changelist_view(appts, action, id) ==
    IF id \in 1 .. Len(appts) THEN [appts EXCEPT ![id].status = status_of(action)] ELSE appts

\* confirm_appointments, cancel_appointments, complete_appointments on the
\* selected rows: queryset.update(status=...)
bulk_update(appts, action, ids) ==
    [i \in 1 .. Len(appts) |->
        IF i \in ids THEN [appts[i] EXCEPT !.status = status_of(action)] ELSE appts[i]]

\* a booking appears in the admin list
BookForAdmin ==
    CreateAppointmentWith(MaxAdminRows, {"api"}, {"Ivan"}, {Phone("local", 1)}, {"nutri"},
                          {"Ekaterina"}, {DayStr("iso", 1)}, ApiTimes)

\* a quick action link is followed, for a row that exists or the first id that does not
QuickAction ==
    /\ \E action \in AdminActions, id \in 1 .. Len(appointments) + 1 :
          appointments' = changelist_view(appointments, action, id)
    /\ lastQuery' = [lastQuery EXCEPT !.fresh = FALSE]
    /\ UNCHANGED <<patients, cache, now, lastCall, tx, sessions, lastTurn, nMsgs, lastCheck,
                   lastPhone>>

\* a bulk action is run on a selection of rows
BulkAction ==
    /\ \E action \in AdminActions, ids \in SUBSET (1 .. Len(appointments)) :
          appointments' = bulk_update(appointments, action, ids)
    /\ lastQuery' = [lastQuery EXCEPT !.fresh = FALSE]
    /\ UNCHANGED <<patients, cache, now, lastCall, tx, sessions, lastTurn, nMsgs, lastCheck,
                   lastPhone>>

NextAdmin == BookForAdmin \/ QuickAction \/ BulkAction \/ CancelAppointment

SpecAdmin == Init /\ [][NextAdmin]_vars

\* the changes of status the quick actions offer
OfferedChange(old, new) ==
    \/ old = "pending" /\ new \in {"confirmed", "cancelled"}
    \/ old = "confirmed" /\ new \in {"completed", "cancelled"}

\* a step keeps the status of every appointment or changes it as offered
LifeCycleStep ==
    \A i \in 1 .. Len(appointments) :
        \/ appointments'[i].status = appointments[i].status
        \/ OfferedChange(appointments[i].status, appointments'[i].status)

\* C19: the status of an appointment follows the life cycle of the quick
\* actions: pending may become confirmed or cancelled, confirmed may become
\* completed or cancelled, and no admin action or cancel_appointment call
\* changes the status of a cancelled or completed appointment.
C19_StatusLifeCycle == [][LifeCycleStep]_vars

====
